---- MODULE Spec2Model ----
(***************************************************************************)
(* Model of the streaming audio core of JARVIS:                            *)
(*   - MultiWakeWordDetector (JARVIS/voice/wake_word.py): clap matcher,    *)
(*     sustained-speech matcher, cooldown gate;                            *)
(*   - SpeechToText (JARVIS/voice/stt.py): VAD-gated utterance capture.    *)
(*                                                                         *)
(* Time is counted in ticks of 10 ms, amplitudes in hundredths of full     *)
(* scale (the int16 conversion multiplies both sides of every amplitude    *)
(* comparison by 32767).                                                   *)
(***************************************************************************)
EXTENDS Integers, Sequences, FiniteSets, TLC

\* ------------------------------------------------------------------------
\* Program constants (wake_word.py __init__), in ticks / hundredths / frames
\* ------------------------------------------------------------------------
CooldownDuration == 300
ClapThreshold == 25
ClapMaxDuration == 30
ClapMinDuration == 5
MaxClapGap == 100
EnergyThreshold == 4
MinSpeechFrames == 10
SustainedSpeechFrames == 20
DetectionBufferLen == 20
\* one block of chunk_size = 480 samples at 16 kHz lasts 30 ms
FrameTicks == 3
\* Program constants (stt.py __init__ and _record_with_vad), in ticks
SilenceTimeout == 200
MinSpeechDuration == 50
MaxDuration == 3000
\* time.sleep(max_duration + 1.0)
SleepMargin == 100

\* ------------------------------------------------------------------------
\* Bounds of the model
\* ------------------------------------------------------------------------
\* frames delivered to the detector in one behaviour on quiet input (no
\* peak above clap_threshold)
MaxQuietFrames == 41
\* frames delivered to the detector in one behaviour with loud frames
MaxFrames == 7
\* frames of one behaviour that arrive after a stall of the stream
MaxDelayed == 1
\* frames of one behaviour with a peak above clap_threshold
MaxLoud == 4
\* frames delivered to one capture, whatever their order and timing
MaxCaptureFrames == 6
\* frames delivered to one capture when they arrive on time and are one
\* burst of speech followed by silence
MaxRegularFrames == 90
\* frames delivered to the detector in one behaviour of MatcherSpec
MaxMatcherFrames == 21
\* of these, the leading frames without a peak above clap_threshold
MaxLeadFrames == 14
\* frames delivered to the detector in one behaviour of LifecycleSpec
MaxRacedFrames == 2
\* frames delivered in one behaviour of RestartSpec
MaxRestartFrames == 8
\* frames delivered in one behaviour of SpanSpec
MaxSpanFrames == 13
\* frames delivered in one behaviour of ConsumerSpec
MaxConsumerFrames == 24
\* calls of listen_and_respond in one behaviour of PipelineSpec
MaxCalls == 3
\* activations of the trigger in one behaviour of PipelineSpec
MaxActivations == 2
\* key presses and input lines in one behaviour of KeyboardSpec
MaxInputs == 5
\* frame callbacks that find the detector stopped, per behaviour
MaxDropped == 1

\* A late frame arrives so that a two-frame clap span starting with it ends
\* exactly max_clap_gap after the previous frame.
LateTicks == MaxClapGap - 2 * FrameTicks
\* A long stall lasts one cooldown.
StallTicks == CooldownDuration

VadVerdicts == {"speech", "silence", "error"}
\* what opening and starting the input stream does: it succeeds, or raises
\* RuntimeError, OSError or an exception of another class
StreamOutcomes == {"ok", "RuntimeError", "OSError", "other"}
\* the threads that call stop()
Callers == {1, 2}
\* the threads that call VoicePipeline.listen_and_respond
Sessions == {1, 2}
\* what record_and_transcribe returns to _on_trigger
Transcriptions == {"", "words"}
\* the value of cb_frame while no callback is in progress
NoFrame == [peak |-> 25, rms |-> 4, vad |-> "silence"]
PeakLevels == {25, 40}
RmsLevels == {4, 5}
\* the audio blocks the stream can deliver: the rms of a block never
\* exceeds its peak
Frames == {f \in [peak : PeakLevels, rms : RmsLevels, vad : VadVerdicts] :
             f.rms <= f.peak}

\* the duration argument of record_and_transcribe: None, or a number of ticks
DurationValues == {0, 100}
Durations == {[given |-> FALSE, value |-> 0]} \cup
             {[given |-> TRUE, value |-> v] : v \in DurationValues}
\* the timestamp of the first block of a capture
FirstTimes == {0, 7}

VARIABLES
    \* MultiWakeWordDetector fields
    running, vad, detection_buffer, cooldown_end,
    stream,       \* _stream is an input stream that was started
    thread,       \* _thread is a processing thread that was started
    clap_history, in_clap, clap_start_time,
    speech_frames, consecutive_speech_frames,
    \* environment of the detector
    now,          \* time.time() as read by the last frame callback
    delivered,    \* frames handled by the running detector so far
    delayed,      \* frames that arrived after a stall so far
    loud,         \* frames with a peak above clap_threshold so far
    \* observations of the detector (history variables)
    events,       \* the consumer callback's invocations, in order
    fired,        \* what the last frame callback emitted
    gated,        \* the last frame callback returned at the cooldown gate
    everLoud,     \* some handled frame had peak > clap_threshold
    speechRun,    \* length of the current run of handled speech frames,
                  \* counted up to the sustained-speech threshold
    spanStart,    \* time of the first frame of the current loud run, or -1
    prevSpanEnd,  \* end of the last qualifying span still unpaired, or -1
    pairDue,      \* the last frame completed a qualifying pair of spans
    last_verdict, \* what the detector answered for the last frame the phrase
                  \* matcher classified: "speech", "silence", "error", or
                  \* "none" when the detector was not asked
    last_is_speech,  \* is_speech of _detect_phrase for that frame
    phrase_evaluated,  \* the last frame callback ran _detect_phrase
    start_raised, \* the last call of start() raised to its caller
    \* threads around the detector
    stop_pc,      \* per caller of stop(): "idle", "stream" (about to stop the
                  \* stream), "join" (about to join the thread)
    stop_returned,  \* a call of stop() has returned since the last start()
    cb_pc,        \* the audio thread: "idle", or "checked" when a frame
                  \* callback is past its _running check
    cb_frame,     \* the block that callback was called with
    run_alive,    \* a processing thread is in the loop of _run
    is_running_ret,  \* what the last call of is_running() returned
    dropped,      \* frame callbacks that returned at the _running check
    consumer,     \* how the last call of the consumer callback ended:
                  \* "none" before the first call, "ok", or the class of
                  \* the exception it raised
    escaped,      \* an exception has left _audio_callback
    started_at,   \* the time of the last frame callback before the last
                  \* start(), 0 before the first start()
    \* SpeechToText.record_and_transcribe and the locals of _record_with_vad
    cap_pc,       \* "idle", "capturing", "stopped" (CallbackStop raised in
                  \* the callback), "returned"
    stt_vad,      \* SpeechToText._vad is not None
    max_duration, frames, recording, silence_start, speech_start, start_time,
    audio,        \* the array _record_with_vad returned
    text,         \* the string record_and_transcribe returned
    \* environment of the capture
    current_time, \* the timestamp of the last block
    captured,     \* blocks delivered to the capture callback so far
    cap_delayed,  \* of these, blocks that arrived after a stall
    \* observations of the capture (history variables)
    regular,      \* so far the blocks arrived on time, as one burst of
                  \* speech from the first block on, followed by silence
    speechCount,  \* blocks classified as speech so far
    stopKind,     \* "none", "soft", "hard", "timeout"
    stopTime,     \* the moment the recording stopped
    softEval,     \* the last block made the callback evaluate the silence
                  \* timeout
    transcribeCalls,  \* invocations of the transcription model
    cap_failure,  \* the first step of record_and_transcribe that failed:
                  \* "none", "model", "vad_unavailable", "vad", "recording",
                  \* "transcription"
    propagated,   \* record_and_transcribe raised to its caller
    duration,     \* the duration argument of the last record_and_transcribe
    returned_at,  \* the moment _record_with_vad returned, counted like the
                  \* block timestamps
    head_speech,  \* the first block of the buffer was classified as speech
    \* KeyboardTrigger fields
    kb_running,   \* KeyboardTrigger._running
    kb_listener,  \* _listener is a keyboard listener that delivers key presses
    kb_manual,    \* the thread of manual_loop is waiting in input()
    \* environment and observations of the keyboard trigger
    kb_mode,      \* "unset" before the first start(), then "listener" when
                  \* pynput was imported, "manual" when it was not
    kb_inputs,    \* key presses and input lines so far
    kb_invocations,  \* calls of the trigger's callback so far
    kb_esc,       \* ESC was pressed since the last start()
    kb_after_esc, \* a SPACE press since that ESC invoked the callback
    \* VoicePipeline fields
    pl_listening, \* VoicePipeline._is_listening
    pl_callback,  \* _callback: 0 for None, else the caller that passed it
    pl_trigger,   \* trigger: 0 for None, else the caller whose call of
                  \* listen_and_respond created the KeyboardTrigger
    trig_running, \* per caller: is_running() of the KeyboardTrigger that its
                  \* call created
    \* threads around the pipeline
    pl_pc,        \* per caller of listen_and_respond: "idle", "entered"
                  \* (past the _is_listening check), "create", "loop",
                  \* "finally", "release"
    ext_pc,       \* the thread that calls stop(): "idle" or "release"
    \* environment and observations of the pipeline
    pl_calls,     \* calls of listen_and_respond so far
    pl_activations,  \* calls of _on_trigger so far
    pl_user_calls,   \* calls of the user's callback so far
    pl_text       \* the transcription of the last activation

detVars == <<running, vad, detection_buffer, cooldown_end, clap_history,
             in_clap, clap_start_time, speech_frames,
             consecutive_speech_frames, now, delivered, delayed, loud,
             events, fired,
             gated, everLoud, speechRun, spanStart, prevSpanEnd, pairDue,
             last_verdict, last_is_speech, phrase_evaluated, stream, thread,
             start_raised, stop_pc, stop_returned, cb_pc, cb_frame,
             run_alive, is_running_ret, dropped, consumer, escaped,
             started_at>>

\* the fields and observations a frame callback writes
detectionState == <<detection_buffer, cooldown_end, clap_history, in_clap,
                    clap_start_time, speech_frames,
                    consecutive_speech_frames, events>>

\* the observation of the voice-activity detector's answers
classVars == <<last_verdict>>

capVars == <<cap_pc, max_duration, frames, recording, silence_start,
             speech_start, start_time, audio, text, current_time, captured,
             cap_delayed, regular, speechCount, stopKind, stopTime, softEval,
             transcribeCalls, stt_vad, cap_failure, propagated, duration,
             returned_at, head_speech>>

kbVars == <<kb_running, kb_listener, kb_manual, kb_mode, kb_inputs,
            kb_invocations, kb_esc, kb_after_esc>>

plVars == <<pl_listening, pl_callback, pl_trigger, trig_running, pl_pc,
            ext_pc, pl_calls, pl_activations, pl_user_calls, pl_text>>

vars == <<detVars, capVars, kbVars, plVars>>

\* ------------------------------------------------------------------------
\* MultiWakeWordDetector
\* ------------------------------------------------------------------------
\* a comparison that lets a peak equal to the threshold start a clap
LoudAtThreshold(peak) == peak >= ClapThreshold

\* peak_energy > self._clap_threshold
Loud(peak) == peak > ClapThreshold

\* a duration test without the lower bound
ValidClapDurationNoMinimum(d) == d <= ClapMaxDuration

\* self._clap_min_duration <= clap_duration <= self._clap_max_duration
ValidClapDuration(d) == ClapMinDuration <= d /\ d <= ClapMaxDuration

RECURSIVE Newer(_, _)
\* [t for t in history if t > cutoff]
Newer(history, cutoff) ==
    IF history = <<>> THEN <<>>
    ELSE IF Head(history) > cutoff
         THEN <<Head(history)>> \o Newer(Tail(history), cutoff)
         ELSE Newer(Tail(history), cutoff)

\* a matcher that keeps every clap time and waits for a third clap
DetectClapsUnpruned(peak, t) ==
    IF Loud(peak)
    THEN [ret |-> FALSE, in_clap |-> TRUE,
          start |-> IF in_clap THEN clap_start_time ELSE t,
          history |-> clap_history]
    ELSE IF in_clap /\ ValidClapDuration(t - clap_start_time)
         THEN IF Len(clap_history) >= 2
              THEN [ret |-> TRUE, in_clap |-> FALSE,
                    start |-> clap_start_time, history |-> <<>>]
              ELSE [ret |-> FALSE, in_clap |-> FALSE,
                    start |-> clap_start_time,
                    history |-> Append(clap_history, t)]
         ELSE [ret |-> FALSE, in_clap |-> FALSE,
               start |-> clap_start_time, history |-> clap_history]

\* _detect_claps: the return value and the fields it leaves behind
DetectClaps(peak, t) ==
    IF Loud(peak)
    THEN [ret |-> FALSE, in_clap |-> TRUE,
          start |-> IF in_clap THEN clap_start_time ELSE t,
          history |-> clap_history]
    ELSE IF in_clap
         THEN IF ValidClapDuration(t - clap_start_time)
              THEN LET h == Newer(Append(clap_history, t), t - MaxClapGap)
                   IN  IF Len(h) >= 2
                       THEN [ret |-> TRUE, in_clap |-> FALSE,
                             start |-> clap_start_time, history |-> <<>>]
                       ELSE [ret |-> FALSE, in_clap |-> FALSE,
                             start |-> clap_start_time, history |-> h]
              ELSE [ret |-> FALSE, in_clap |-> FALSE,
                    start |-> clap_start_time, history |-> clap_history]
         ELSE [ret |-> FALSE, in_clap |-> FALSE,
               start |-> clap_start_time, history |-> clap_history]

\* the classification of _detect_phrase: the detector's verdict, and the
\* energy comparison whenever that verdict is not "speech"
IsSpeech(f, v) ==
    \/ v /\ f.vad = "speech"
    \/ f.rms > EnergyThreshold

\* the matcher without its second threshold: fires once min_speech_frames
\* consecutive speech frames are seen
DetectPhraseSingleStage(f) ==
    IF IsSpeech(f, vad)
    THEN [ret |-> consecutive_speech_frames + 1 >= MinSpeechFrames,
          consecutive |-> consecutive_speech_frames + 1,
          speech |-> speech_frames + 1]
    ELSE [ret |-> FALSE, consecutive |-> 0, speech |-> 0]

\* a matcher whose non-speech branch clears the consecutive counter only
DetectPhraseKeepingTotal(f) ==
    IF IsSpeech(f, vad)
    THEN [ret |-> /\ consecutive_speech_frames + 1 >= MinSpeechFrames
                  /\ speech_frames + 1 >= SustainedSpeechFrames,
          consecutive |-> consecutive_speech_frames + 1,
          speech |-> speech_frames + 1]
    ELSE [ret |-> FALSE, consecutive |-> 0, speech |-> speech_frames]

\* _detect_phrase: the return value and the two counters
DetectPhrase(f) ==
    IF IsSpeech(f, vad)
    THEN [ret |-> /\ consecutive_speech_frames + 1 >= MinSpeechFrames
                  /\ speech_frames + 1 >= SustainedSpeechFrames,
          consecutive |-> consecutive_speech_frames + 1,
          speech |-> speech_frames + 1]
    ELSE [ret |-> FALSE, consecutive |-> 0, speech |-> 0]

\* a gate that compares against the start of the cooldown, not its end
InCooldownFromStart(t) == t + CooldownDuration < cooldown_end

\* current_time < self._cooldown_end
InCooldown(t) == t < cooldown_end

\* deque(maxlen=20).append
BufferAppend(buf, x) ==
    IF Len(buf) < DetectionBufferLen THEN Append(buf, x)
    ELSE Append(Tail(buf), x)

TriggerEvent(method, t) == [method |-> method, time |-> t]

\* a callback that goes on to the phrase matcher after a clap event
ReachesPhraseAlways(c) == TRUE

\* the return after _trigger_detection("2 claps"): _detect_phrase is reached
\* only when _detect_claps returned False
ReachesPhrase(c) == ~c.ret

\* _init_vad: the detector object, or None when webrtcvad is missing or its
\* constructor raises
InitVad(available, ctorOk) == available /\ ctorOk

Init ==
    /\ running = FALSE
    /\ stream = FALSE
    /\ thread = FALSE
    /\ start_raised = FALSE
    /\ stop_pc = [c \in Callers |-> "idle"]
    /\ stop_returned = FALSE
    /\ cb_pc = "idle"
    /\ cb_frame = NoFrame
    /\ run_alive = FALSE
    /\ is_running_ret = FALSE
    /\ dropped = 0
    /\ consumer = "none"
    /\ escaped = FALSE
    /\ started_at = 0
    /\ vad = FALSE
    /\ detection_buffer = <<>>
    /\ cooldown_end = 0
    /\ clap_history = <<>>
    /\ in_clap = FALSE
    /\ clap_start_time = 0
    /\ speech_frames = 0
    /\ consecutive_speech_frames = 0
    /\ now = 1
    /\ delivered = 0
    /\ delayed = 0
    /\ loud = 0
    /\ events = <<>>
    /\ fired = "none"
    /\ gated = FALSE
    /\ everLoud = FALSE
    /\ speechRun = 0
    /\ spanStart = -1
    /\ prevSpanEnd = -1
    /\ pairDue = FALSE
    /\ last_verdict = "none"
    /\ last_is_speech = FALSE
    /\ phrase_evaluated = FALSE
    /\ cap_pc = "idle"
    /\ max_duration = MaxDuration
    /\ frames = <<>>
    /\ recording = FALSE
    /\ silence_start = 0
    /\ speech_start = 0
    /\ start_time = 0
    /\ audio = <<>>
    /\ text = ""
    /\ current_time = 0
    /\ captured = 0
    /\ cap_delayed = 0
    /\ regular = TRUE
    /\ speechCount = 0
    /\ stopKind = "none"
    /\ stopTime = 0
    /\ softEval = FALSE
    /\ transcribeCalls = 0
    /\ stt_vad = FALSE
    /\ cap_failure = "none"
    /\ propagated = FALSE
    /\ duration = [given |-> FALSE, value |-> 0]
    /\ returned_at = 0
    /\ head_speech = FALSE
    /\ kb_running = FALSE
    /\ kb_listener = FALSE
    /\ kb_manual = FALSE
    /\ kb_mode = "unset"
    /\ kb_inputs = 0
    /\ kb_invocations = 0
    /\ kb_esc = FALSE
    /\ kb_after_esc = FALSE
    /\ pl_listening = FALSE
    /\ pl_callback = 0
    /\ pl_trigger = 0
    /\ trig_running = [c \in Sessions |-> FALSE]
    /\ pl_pc = [c \in Sessions |-> "idle"]
    /\ ext_pc = "idle"
    /\ pl_calls = 0
    /\ pl_activations = 0
    /\ pl_user_calls = 0
    /\ pl_text = "none"

\* except (RuntimeError, OSError) around sd.InputStream(...) and
\* stream.start()
HandledOpenFailure(outcome) == outcome \in {"RuntimeError", "OSError"}

\* a start() that clears the detection state
StartResetting ==
    /\ ~running
    /\ \A c \in Callers : stop_pc[c] = "idle"
    /\ stop_returned' = FALSE
    /\ started_at' = now
    /\ vad' \in {InitVad(available, ctorOk) :
                    available \in BOOLEAN, ctorOk \in BOOLEAN}
    /\ \E outcome \in StreamOutcomes :
          /\ stream' = (outcome = "ok")
          /\ thread' = (outcome = "ok")
          /\ run_alive' = (run_alive \/ outcome = "ok")
          /\ running' = ~HandledOpenFailure(outcome)
          /\ start_raised' = (outcome # "ok")
    /\ UNCHANGED <<capVars, kbVars, plVars>>
    /\ cooldown_end' = 0
    /\ clap_history' = <<>>
    /\ in_clap' = FALSE
    /\ speech_frames' = 0
    /\ consecutive_speech_frames' = 0
    /\ UNCHANGED <<detection_buffer, clap_start_time,
                   now, delivered, delayed, loud, events, fired, gated,
                   everLoud, speechRun, spanStart, prevSpanEnd, pairDue,
                   last_is_speech, phrase_evaluated, classVars, stop_pc,
                   cb_pc, cb_frame, is_running_ret, dropped, consumer,
                   escaped>>

\* start(): a second start is refused; _init_vad, _running = True, then the
\* stream is opened and started; a RuntimeError or OSError from that takes
\* _running back and is re-raised as RuntimeError, any other exception
\* passes through both handlers; the thread is started after the stream.
\* The callers do not start the detector while a stop() is under way.
Start ==
    /\ ~running
    /\ \A c \in Callers : stop_pc[c] = "idle"
    /\ stop_returned' = FALSE
    /\ started_at' = now
    /\ vad' \in {InitVad(available, ctorOk) :
                    available \in BOOLEAN, ctorOk \in BOOLEAN}
    /\ \E outcome \in StreamOutcomes :
          /\ stream' = (outcome = "ok")
          /\ thread' = (outcome = "ok")
          /\ run_alive' = (run_alive \/ outcome = "ok")
          /\ running' = ~HandledOpenFailure(outcome)
          /\ start_raised' = (outcome # "ok")
    /\ UNCHANGED <<capVars, kbVars, plVars>>
    /\ UNCHANGED <<detection_buffer, cooldown_end, clap_history, in_clap,
                   clap_start_time, speech_frames, consecutive_speech_frames,
                   now, delivered, delayed, loud, events, fired, gated,
                   everLoud, speechRun, spanStart, prevSpanEnd, pairDue,
                   last_is_speech, phrase_evaluated, classVars, stop_pc,
                   cb_pc, cb_frame, is_running_ret, dropped, consumer,
                   escaped>>

\* what stop() and the audio thread leave alone
frameVars == <<vad, detection_buffer, cooldown_end, clap_history, in_clap,
               clap_start_time, speech_frames, consecutive_speech_frames,
               now, delivered, delayed, loud, events, fired, gated, everLoud,
               speechRun, spanStart, prevSpanEnd, pairDue, last_is_speech,
               phrase_evaluated, classVars, consumer, escaped,
               is_running_ret, started_at>>

\* stop() up to `self._running = False`, called by c: it returns at once
\* when the detector is not running
StopBegin(c) ==
    /\ stop_pc[c] = "idle"
    /\ IF running
       THEN /\ running' = FALSE
            /\ stop_pc' = [stop_pc EXCEPT ![c] = "stream"]
            /\ UNCHANGED stop_returned
       ELSE /\ stop_returned' = TRUE
            /\ UNCHANGED <<running, stop_pc>>
    /\ UNCHANGED <<stream, thread, start_raised, cb_pc, cb_frame, run_alive,
                   dropped>>
    /\ UNCHANGED frameVars
    /\ UNCHANGED <<capVars, kbVars, plVars>>

\* stop(): self._stream.stop() and close(). A stop that succeeds returns
\* once the callback in progress has returned; a RuntimeError or OSError is
\* logged and stop() goes on with the stream left as it is; any other
\* exception leaves stop()
StopStream(c) ==
    /\ stop_pc[c] = "stream"
    /\ IF ~stream
       THEN /\ stop_pc' = [stop_pc EXCEPT ![c] = "join"]
            /\ UNCHANGED stream
       ELSE \E outcome \in StreamOutcomes :
              /\ outcome = "ok" => cb_pc = "idle"
              /\ stream' = (outcome # "ok")
              /\ stop_pc' = [stop_pc EXCEPT ![c] =
                                IF outcome = "other" THEN "idle"
                                ELSE "join"]
    /\ UNCHANGED <<running, thread, start_raised, stop_returned, cb_pc,
                   cb_frame, run_alive, dropped>>
    /\ UNCHANGED frameVars
    /\ UNCHANGED <<capVars, kbVars, plVars>>

\* stop(): self._thread.join(timeout=2.0), and the return
StopJoin(c) ==
    /\ stop_pc[c] = "join"
    /\ thread' = FALSE
    /\ stop_returned' = TRUE
    /\ stop_pc' = [stop_pc EXCEPT ![c] = "idle"]
    /\ UNCHANGED <<running, stream, start_raised, cb_pc, cb_frame, run_alive,
                   dropped>>
    /\ UNCHANGED frameVars
    /\ UNCHANGED <<capVars, kbVars, plVars>>

\* what an observer of the handled frames sees of the loud spans: the span
\* that ends on a quiet frame at t, and whether it pairs with the previous
\* qualifying span (gap between the two span ends <= max_clap_gap)
SpanEnds(f) == ~(f.peak > ClapThreshold) /\ spanStart # -1

SpanQualifies(t) ==
    ClapMinDuration <= t - spanStart /\ t - spanStart <= ClapMaxDuration

PairCompleted(f, t) ==
    /\ SpanEnds(f)
    /\ SpanQualifies(t)
    /\ prevSpanEnd # -1
    /\ t - prevSpanEnd <= MaxClapGap

ObserveSpans(f, t) ==
    /\ spanStart' = IF f.peak > ClapThreshold
                     THEN (IF spanStart = -1 THEN t ELSE spanStart)
                     ELSE -1
    /\ pairDue' = PairCompleted(f, t)
    /\ prevSpanEnd' = IF PairCompleted(f, t) THEN -1
                       ELSE IF SpanEnds(f) /\ SpanQualifies(t) THEN t
                       ELSE prevSpanEnd

\* how a call of the consumer callback ends: it returns, or raises
\* RuntimeError, TypeError or an exception of another class
ConsumerOutcomes == {"ok", "RuntimeError", "TypeError", "other"}

TriggerSwallowsRuntimeErrorOnly(outcome) == outcome = "RuntimeError"

\* _trigger_detection: except (RuntimeError, TypeError) around
\* self.callback(), logged
TriggerSwallows(outcome) == outcome \in {"RuntimeError", "TypeError"}

\* _audio_callback: except (RuntimeError, ValueError) around its body, logged
CallbackCatches(outcome) == outcome \in {"RuntimeError", "ValueError"}

\* the consumer callback's exception leaves _trigger_detection and then
\* _audio_callback
Escapes(outcome) ==
    /\ outcome # "ok"
    /\ ~TriggerSwallows(outcome)
    /\ ~CallbackCatches(outcome)

\* _trigger_detection: self.callback() is called when the frame emits an
\* event, and ends with `outcome`
TriggerDetection(outcome) ==
    /\ consumer' = IF fired' # "none" THEN outcome ELSE consumer
    /\ escaped' = (escaped \/ (fired' # "none" /\ Escapes(outcome)))

\* the body of _audio_callback past the _running check, for block f read at
\* time t; how the consumer callback ends is left to the caller
ProcessBlock(f, t) ==
    /\ now' = t
    /\ delivered' = delivered + 1
    /\ loud' = IF f.peak > ClapThreshold THEN loud + 1 ELSE loud
    /\ everLoud' = (everLoud \/ f.peak > ClapThreshold)
    /\ detection_buffer' = BufferAppend(detection_buffer, delivered + 1)
    /\ speechRun' = IF ~IsSpeech(f, vad) THEN 0
                     ELSE IF speechRun < SustainedSpeechFrames
                          THEN speechRun + 1
                          ELSE SustainedSpeechFrames
    /\ IF InCooldown(t)
       THEN /\ gated' = TRUE
            /\ fired' = "none"
            /\ pairDue' = FALSE
            /\ spanStart' = -1
            /\ prevSpanEnd' = -1
            /\ phrase_evaluated' = FALSE
            /\ last_is_speech' = FALSE
            /\ UNCHANGED <<cooldown_end, clap_history, in_clap,
                           clap_start_time, speech_frames,
                           consecutive_speech_frames, events>>
       ELSE LET c == DetectClaps(f.peak, t)
                runs == ReachesPhrase(c)
                p == DetectPhrase(f)
                claps == IF c.ret THEN <<TriggerEvent("Claps", t)>>
                         ELSE <<>>
                phrase == IF runs /\ p.ret
                          THEN <<TriggerEvent("SustainedSpeech", t)>>
                          ELSE <<>>
            IN  /\ gated' = FALSE
                /\ ObserveSpans(f, t)
                /\ in_clap' = c.in_clap
                /\ clap_start_time' = c.start
                /\ clap_history' = c.history
                /\ phrase_evaluated' = runs
                /\ last_is_speech' = (runs /\ IsSpeech(f, vad))
                /\ consecutive_speech_frames' =
                      IF ~runs THEN consecutive_speech_frames
                      ELSE IF p.ret THEN 0 ELSE p.consecutive
                /\ speech_frames' =
                      IF ~runs THEN speech_frames
                      ELSE IF p.ret THEN 0 ELSE p.speech
                /\ events' = events \o claps \o phrase
                /\ cooldown_end' = IF claps \o phrase # <<>>
                                   THEN t + CooldownDuration
                                   ELSE cooldown_end
                /\ fired' = IF c.ret THEN "Claps"
                            ELSE IF p.ret THEN "SustainedSpeech"
                            ELSE "none"
    /\ UNCHANGED <<running, vad, stream, thread, start_raised, stop_pc,
                   stop_returned, run_alive, is_running_ret, dropped,
                   started_at>>
    /\ UNCHANGED <<capVars, kbVars, plVars>>

\* _audio_callback on the running detector, for block f read at time t,
\* when nothing else runs between its _running check and its return and
\* the consumer callback returns
AudioCallback(f, t) ==
    /\ running
    /\ cb_pc = "idle"
    /\ ProcessBlock(f, t)
    /\ TriggerDetection("ok")
    /\ UNCHANGED <<cb_pc, cb_frame>>

\* the frames of one behaviour of DetectorSpec: loud frames only among the
\* first MaxFrames, MaxLoud of them, MaxQuietFrames frames in all
WithinBounds(f) ==
    /\ f.peak > ClapThreshold => loud < MaxLoud /\ delivered < MaxFrames
    /\ delivered < MaxQuietFrames
    /\ loud = 0 \/ delivered < MaxFrames

\* what an observer of the voice-activity detector sees for block f: its
\* answer when _detect_phrase asked it, "none" when it was not asked
AskedVerdict(f) ==
    IF phrase_evaluated' /\ vad THEN f.vad ELSE "none"

\* the stream delivers the next block one frame period after the last
FrameOnTime ==
    /\ stream
    /\ \E f \in Frames : WithinBounds(f) /\ AudioCallback(f, now + FrameTicks)
    /\ UNCHANGED <<delayed, classVars>>

\* the stream delivers the next block after a short stall
FrameLate ==
    /\ stream
    /\ delayed < MaxDelayed
    /\ delayed' = delayed + 1
    /\ \E f \in Frames : WithinBounds(f) /\ AudioCallback(f, now + LateTicks)
    /\ UNCHANGED classVars

\* the stream delivers the next block after a long stall
FrameStalled ==
    /\ stream
    /\ delayed < MaxDelayed
    /\ delayed' = delayed + 1
    /\ \E f \in Frames : WithinBounds(f) /\ AudioCallback(f, now + StallTicks)
    /\ UNCHANGED classVars

DetectorNext == Start \/ FrameOnTime \/ FrameLate \/ FrameStalled

DetectorSpec == Init /\ [][DetectorNext]_vars

\* the frames of one behaviour of MatcherSpec: MaxMatcherFrames in all, loud
\* frames only after the first MaxLeadFrames
MatcherBlock(t) ==
    /\ stream
    /\ delivered < MaxMatcherFrames
    /\ \E f \in Frames :
          /\ f.peak > ClapThreshold =>
                loud < MaxLoud /\ delivered >= MaxLeadFrames
          /\ AudioCallback(f, t)
          /\ last_verdict' = AskedVerdict(f)

\* the next block arrives one frame period after the last
MatcherFrame ==
    /\ MatcherBlock(now + FrameTicks)
    /\ UNCHANGED delayed

\* the next block arrives after a short stall, among the frames that may
\* be loud
MatcherFrameLate ==
    /\ delayed < MaxDelayed
    /\ delivered >= MaxLeadFrames
    /\ delayed' = delayed + 1
    /\ MatcherBlock(now + LateTicks)

MatcherNext == Start \/ MatcherFrame \/ MatcherFrameLate

\* the matchers of a detector that is started once, with the detector's
\* answers observed
MatcherSpec == Init /\ [][MatcherNext]_vars

ReturnsNever == FALSE

\* _audio_callback: `if not self._running: return`
ReturnsAtOnce == ~running

\* the next block of a stream that delivers every block one frame period
\* (30 ms) after the last, MaxSpanFrames blocks in all; the voice-activity
\* detector hears no speech in them
SpanFrame ==
    /\ stream
    /\ delivered < MaxSpanFrames
    /\ \E f \in Frames :
          /\ f.vad = "silence"
          /\ AudioCallback(f, now + FrameTicks)
    /\ UNCHANGED <<delayed, classVars>>

SpanNext == Start \/ SpanFrame

\* the matchers on a stream without stalls, with loud runs of any length
SpanSpec == Init /\ [][SpanNext]_vars

\* a block for a detector that is stopped and started again between
\* blocks: MaxRestartFrames blocks in all, without detected speech
RestartBlock(t) ==
    /\ stream
    /\ delivered < MaxRestartFrames
    /\ \E f \in Frames :
          /\ f.vad = "silence"
          /\ AudioCallback(f, t)
    /\ UNCHANGED classVars

\* the next block arrives one frame period after the last
RestartFrame ==
    /\ RestartBlock(now + FrameTicks)
    /\ UNCHANGED delayed

\* the next block arrives after a long stall
RestartFrameStalled ==
    /\ delayed < MaxDelayed
    /\ delayed' = delayed + 1
    /\ RestartBlock(now + StallTicks)

\* a block for a consumer callback that may raise: the detector's answer
\* for it is "speech" or "silence"; MaxConsumerFrames blocks in all, and
\* none after an exception has left _audio_callback
ConsumerBlock(t) ==
    /\ stream
    /\ running
    /\ cb_pc = "idle"
    /\ ~escaped
    /\ delivered < MaxConsumerFrames
    /\ \E f \in Frames :
          /\ f.vad # "error"
          /\ WithinBounds(f)
          /\ ProcessBlock(f, t)
          /\ \E outcome \in ConsumerOutcomes : TriggerDetection(outcome)
    /\ UNCHANGED <<cb_pc, cb_frame, classVars>>

\* the next block arrives one frame period after the last
ConsumerFrame ==
    /\ ConsumerBlock(now + FrameTicks)
    /\ UNCHANGED delayed

\* the next block arrives after a long stall
ConsumerFrameStalled ==
    /\ delayed < MaxDelayed
    /\ delayed' = delayed + 1
    /\ ConsumerBlock(now + StallTicks)

ConsumerNext == Start \/ ConsumerFrame \/ ConsumerFrameStalled

\* the frames of a detector that is started once, with a consumer callback
\* that may raise
ConsumerSpec == Init /\ [][ConsumerNext]_vars

\* _audio_callback for block f up to its _running check: a callback that
\* finds the detector stopped returns at once
CallbackEnter ==
    /\ stream
    /\ cb_pc = "idle"
    /\ IF ReturnsAtOnce
       THEN /\ dropped < MaxDropped
            /\ dropped' = dropped + 1
            /\ UNCHANGED <<cb_pc, cb_frame>>
       ELSE /\ delivered < MaxRacedFrames
            /\ \E f \in Frames : cb_frame' = f
            /\ cb_pc' = "checked"
            /\ UNCHANGED dropped
    /\ UNCHANGED <<running, stream, thread, start_raised, stop_pc,
                   stop_returned, delayed, run_alive>>
    /\ UNCHANGED frameVars
    /\ UNCHANGED <<capVars, kbVars, plVars>>

\* the rest of that _audio_callback
CallbackBody ==
    /\ cb_pc = "checked"
    /\ ProcessBlock(cb_frame, now + FrameTicks)
    /\ \E outcome \in ConsumerOutcomes : TriggerDetection(outcome)
    /\ cb_pc' = "idle"
    /\ UNCHANGED <<cb_frame, delayed, classVars>>

Stop == \E c \in Callers : StopBegin(c) \/ StopStream(c) \/ StopJoin(c)

RunResetting ==
    /\ run_alive
    /\ ~running
    /\ run_alive' = FALSE
    /\ in_clap' = FALSE
    /\ speech_frames' = 0
    /\ consecutive_speech_frames' = 0
    /\ UNCHANGED <<running, vad, stream, thread, start_raised, stop_pc,
                   stop_returned, cb_pc, cb_frame, dropped, consumer,
                   escaped, is_running_ret, classVars, started_at>>
    /\ UNCHANGED <<detection_buffer, cooldown_end, clap_history,
                   clap_start_time, now, delivered, delayed, loud, events,
                   fired, gated, everLoud, speechRun, spanStart, prevSpanEnd,
                   pairDue, last_is_speech, phrase_evaluated>>
    /\ UNCHANGED <<capVars, kbVars, plVars>>

\* _run: the loop test `while self._running` fails and the thread ends;
\* while it holds the thread sleeps and writes nothing
Run ==
    /\ run_alive
    /\ ~running
    /\ run_alive' = FALSE
    /\ UNCHANGED <<running, stream, thread, start_raised, stop_pc,
                   stop_returned, cb_pc, cb_frame, delayed, dropped>>
    /\ UNCHANGED frameVars
    /\ UNCHANGED <<capVars, kbVars, plVars>>

\* is_running(): return self._running
IsRunning ==
    /\ is_running_ret' = running
    /\ UNCHANGED <<running, vad, stream, thread, start_raised, stop_pc,
                   stop_returned, cb_pc, cb_frame, run_alive, dropped,
                   consumer, escaped, classVars, started_at>>
    /\ UNCHANGED <<detection_buffer, cooldown_end, clap_history, in_clap,
                   clap_start_time, speech_frames, consecutive_speech_frames,
                   now, delivered, delayed, loud, events, fired, gated,
                   everLoud, speechRun, spanStart, prevSpanEnd, pairDue,
                   last_is_speech, phrase_evaluated>>
    /\ UNCHANGED <<capVars, kbVars, plVars>>

\* stop(), called by one thread once the detector has fired an event
RestartStop ==
    /\ events # <<>>
    /\ StopBegin(1) \/ StopStream(1) \/ StopJoin(1)

RestartNext == Start \/ RestartStop \/ RestartFrame \/ RestartFrameStalled

\* start() and stop() between the blocks of a stream
RestartSpec == Init /\ [][RestartNext]_vars

LifecycleNext ==
    Start \/ Stop \/ CallbackEnter \/ CallbackBody \/ Run \/ IsRunning

\* start(), stop() from several threads, and the audio thread
LifecycleSpec == Init /\ [][LifecycleNext]_vars

\* ------------------------------------------------------------------------
\* SpeechToText: record_and_transcribe and the callback of _record_with_vad
\* ------------------------------------------------------------------------

\* max_duration = duration or self.max_duration
ResolveDuration(d) ==
    IF d.given /\ d.value # 0 THEN d.value ELSE MaxDuration

\* _is_speech: False without a detector, else the detector's verdict, False
\* when the detector raises
StreamIsSpeech(verdict) == stt_vad /\ verdict = "speech"

\* a cap that is only applied while nothing is being recorded
ExpiredWhileIdle(elapsed) == elapsed > max_duration /\ ~recording

\* elapsed > max_duration
Expired(elapsed) == elapsed > max_duration

\* a callback that appends speech blocks only
KeepsSpeechOnly(is_speech) == is_speech

\* a callback that appends every block, recording or not
KeepsEveryFrame(is_speech) == TRUE

\* the branches of the callback that append the block: is_speech, and
\* elif recording
KeepsFrame(is_speech) == is_speech \/ recording

\* a timeout of min_speech_duration instead of silence_timeout
SilenceExpiredAfterMinimum(t) == t - silence_start > MinSpeechDuration

\* a timeout counted from the onset of speech, not from its last block
SilenceExpiredSinceOnset(t) == t - speech_start > SilenceTimeout

\* current_time - silence_start > self.silence_timeout
SilenceExpired(t) == t - silence_start > SilenceTimeout

\* a speech duration measured up to the last speech block
SpeechDurationToLastSpeech(t) == silence_start - speech_start

\* speech_duration = current_time - speech_start
SpeechDuration(t) == t - speech_start

\* frames.append(frame_bytes): the block is kept with its arrival number and
\* its timestamp
Block(n, t) == [n |-> n, t |-> t]

\* stt.py _init_vad: the detector object; raises RuntimeError when webrtcvad
\* is missing or its constructor fails
SttInitVad(available, ctorOk) == available /\ ctorOk

\* the step that raises before the recording starts: _load_model, or
\* _init_vad for a missing module or a failing constructor
SetupFailure(modelOk, available, ctorOk) ==
    IF ~modelOk THEN "model"
    ELSE IF ~available THEN "vad_unavailable"
    ELSE IF ~ctorOk THEN "vad"
    ELSE "none"

\* a record_and_transcribe whose handler lets the failure through
CaughtNever(failure) == FALSE

\* except Exception in record_and_transcribe
Caught(failure) == TRUE

\* record_and_transcribe up to the opening of the stream: _load_model,
\* _init_vad, max_duration, sd.InputStream(...)
RecordAndTranscribe ==
    /\ cap_pc = "idle"
    /\ \E d \in Durations, modelOk \in BOOLEAN, available \in BOOLEAN,
          ctorOk \in BOOLEAN, streamOk \in BOOLEAN :
          LET failure == SetupFailure(modelOk, available, ctorOk)
          IN  /\ stt_vad' = (modelOk /\ SttInitVad(available, ctorOk))
              /\ duration' = d
              /\ returned_at' = 0
              /\ IF failure = "none"
                 THEN /\ max_duration' = ResolveDuration(d)
                      /\ cap_pc' = IF streamOk THEN "capturing"
                                   ELSE "returned"
                      /\ cap_failure' = IF streamOk THEN "none"
                                        ELSE "recording"
                      /\ UNCHANGED propagated
                 ELSE /\ cap_pc' = "returned"
                      /\ cap_failure' = failure
                      /\ propagated' = ~Caught(failure)
                      /\ UNCHANGED max_duration
    /\ UNCHANGED <<frames, recording, silence_start, speech_start,
                   start_time, audio, text, current_time, captured,
                   cap_delayed, regular, speechCount, stopKind, stopTime,
                   softEval, transcribeCalls, head_speech>>
    /\ UNCHANGED <<detVars, kbVars, plVars>>

\* the callback of _record_with_vad for a block with the given detector
\* verdict and timestamp t
Callback(verdict, t) ==
    LET is_speech == StreamIsSpeech(verdict)
        start == IF start_time = 0 THEN t ELSE start_time
        elapsed == t - start
    IN  /\ cap_pc = "capturing"
        \* the stream is closed when the wait of _record_with_vad is over
        /\ t <= start + max_duration + SleepMargin
        /\ current_time' = t
        /\ captured' = captured + 1
        /\ start_time' = start
        /\ speechCount' = IF is_speech THEN speechCount + 1 ELSE speechCount
        /\ regular' = (/\ regular
                       /\ captured = 0 \/ t = current_time + FrameTicks
                       /\ is_speech => captured = speechCount
                       /\ ~is_speech => speechCount > 0)
        /\ captured < MaxCaptureFrames
              \/ (regular' /\ captured < MaxRegularFrames)
        /\ IF Expired(elapsed)
           THEN /\ cap_pc' = "stopped"
                /\ stopKind' = "hard"
                /\ stopTime' = t
                /\ softEval' = FALSE
                /\ UNCHANGED <<frames, recording, silence_start,
                               speech_start>>
           ELSE IF is_speech
           THEN /\ recording' = TRUE
                /\ speech_start' = IF recording THEN speech_start ELSE t
                /\ silence_start' = t
                /\ frames' = IF KeepsFrame(is_speech)
                             THEN Append(frames, Block(captured + 1, t))
                             ELSE frames
                /\ softEval' = FALSE
                /\ UNCHANGED <<cap_pc, stopKind, stopTime>>
           ELSE IF KeepsFrame(is_speech)
           THEN IF SilenceExpired(t)
                THEN IF SpeechDuration(t) >= MinSpeechDuration
                     THEN /\ frames' = Append(frames, Block(captured + 1, t))
                          /\ cap_pc' = "stopped"
                          /\ stopKind' = "soft"
                          /\ stopTime' = t
                          /\ softEval' = TRUE
                          /\ UNCHANGED <<recording, silence_start,
                                         speech_start>>
                     ELSE /\ frames' = <<>>
                          /\ recording' = FALSE
                          /\ softEval' = TRUE
                          /\ UNCHANGED <<cap_pc, stopKind, stopTime,
                                         silence_start, speech_start>>
                ELSE /\ frames' = Append(frames, Block(captured + 1, t))
                     /\ softEval' = FALSE
                     /\ UNCHANGED <<cap_pc, stopKind, stopTime, recording,
                                    silence_start, speech_start>>
           ELSE /\ softEval' = FALSE
                /\ UNCHANGED <<cap_pc, stopKind, stopTime, frames,
                               recording, silence_start, speech_start>>
        /\ head_speech' = IF frames' = <<>> THEN FALSE
                          ELSE IF frames = <<>> THEN is_speech
                          ELSE head_speech
        /\ UNCHANGED <<duration, returned_at>>
        /\ UNCHANGED <<max_duration, audio, text, transcribeCalls, stt_vad,
                       cap_failure, propagated>>
        /\ UNCHANGED <<detVars, kbVars, plVars>>

\* the first block of the stream
FirstBlock ==
    /\ captured = 0
    /\ \E v \in VadVerdicts, t \in FirstTimes : Callback(v, t)
    /\ UNCHANGED cap_delayed

\* a block one frame period after the previous one
BlockOnTime ==
    /\ captured > 0
    /\ \E v \in VadVerdicts : Callback(v, current_time + FrameTicks)
    /\ UNCHANGED cap_delayed

\* a block after a short stall of the stream
BlockLate ==
    /\ captured > 0
    /\ cap_delayed < MaxDelayed
    /\ cap_delayed' = cap_delayed + 1
    /\ \E v \in VadVerdicts : Callback(v, current_time + LateTicks)

\* a block after a long stall of the stream
BlockStalled ==
    /\ captured > 0
    /\ cap_delayed < MaxDelayed
    /\ cap_delayed' = cap_delayed + 1
    /\ \E v \in VadVerdicts : Callback(v, current_time + StallTicks)

ReturnTimeAtStop ==
    IF stopKind \in {"soft", "hard"} THEN stopTime
    ELSE start_time + max_duration + SleepMargin

\* with sd.InputStream(...): time.sleep(max_duration + 1.0): the wait is in
\* the calling thread and a CallbackStop raised in the callback does not
\* reach it
ReturnTime == start_time + max_duration + SleepMargin

\* time.sleep(max_duration + 1.0) is over: the stream is closed, which
\* may raise into the except Exception of _record_with_vad;
\* _record_with_vad returns the joined frames and record_and_transcribe
\* transcribes them unless there are none; _transcribe_audio returns "" when
\* the model raises
SleepElapsed ==
    /\ cap_pc \in {"capturing", "stopped"}
    /\ cap_pc' = "returned"
    /\ audio' = frames
    /\ returned_at' = ReturnTime
    /\ IF stopKind = "none"
       THEN /\ stopKind' = "timeout"
            /\ stopTime' = start_time + max_duration + SleepMargin
       ELSE UNCHANGED <<stopKind, stopTime>>
    /\ \E closeOk \in BOOLEAN, transcribeOk \in BOOLEAN :
          /\ cap_failure' = IF ~closeOk THEN "recording"
                            ELSE IF Len(frames) > 0 /\ ~transcribeOk
                                 THEN "transcription"
                                 ELSE "none"
          /\ IF Len(frames) = 0
             THEN /\ text' = ""
                  /\ UNCHANGED transcribeCalls
             ELSE /\ transcribeCalls' = transcribeCalls + 1
                  /\ IF transcribeOk
                     THEN \E out \in {"", "words"} : text' = out
                     ELSE text' = ""
    /\ UNCHANGED <<stt_vad, propagated, duration, head_speech>>
    /\ UNCHANGED <<max_duration, frames, recording, silence_start,
                   speech_start, start_time, current_time, captured,
                   cap_delayed, regular, speechCount, softEval>>
    /\ UNCHANGED <<detVars, kbVars, plVars>>

CaptureNext ==
    \/ RecordAndTranscribe
    \/ FirstBlock
    \/ BlockOnTime
    \/ BlockLate
    \/ BlockStalled
    \/ SleepElapsed

CaptureSpec == Init /\ [][CaptureNext]_vars

\* ------------------------------------------------------------------------
\* KeyboardTrigger
\* ------------------------------------------------------------------------

\* the keys the listener reports, and the lines typed in manual mode
Keys == {"space", "esc", "other"}
Lines == {"go", "quit", "other"}

\* start(): refused when running; without pynput the manual mode is started
\* (_running = True and the thread of manual_loop); with pynput _running =
\* True, then the listener is created and started, and an exception from
\* that takes _running back and is raised as RuntimeError
KeyboardStart ==
    /\ ~kb_running
    /\ \E available \in BOOLEAN, listenerOk \in BOOLEAN :
          /\ kb_mode \in {"unset", IF available THEN "listener" ELSE "manual"}
          /\ kb_mode' = IF available THEN "listener" ELSE "manual"
          /\ IF ~available
             THEN /\ kb_running' = TRUE
                  /\ kb_manual' = TRUE
                  /\ UNCHANGED kb_listener
             ELSE /\ kb_running' = listenerOk
                  /\ kb_listener' = (kb_listener \/ listenerOk)
                  /\ UNCHANGED kb_manual
    /\ kb_esc' = FALSE
    /\ kb_after_esc' = FALSE
    /\ UNCHANGED <<kb_inputs, kb_invocations>>
    /\ UNCHANGED <<detVars, capVars, plVars>>

\* _on_press(key), called by the listener: SPACE calls the callback, every
\* other key is ignored, and the listener is told to go on (return True)
OnPress ==
    /\ kb_listener
    /\ kb_inputs < MaxInputs
    /\ kb_inputs' = kb_inputs + 1
    /\ \E key \in Keys :
          /\ kb_invocations' = IF key = "space" THEN kb_invocations + 1
                               ELSE kb_invocations
          /\ kb_esc' = (kb_esc \/ key = "esc")
          /\ kb_after_esc' = (kb_after_esc \/ (key = "space" /\ kb_esc))
    /\ UNCHANGED <<kb_running, kb_listener, kb_manual, kb_mode>>
    /\ UNCHANGED <<detVars, capVars, plVars>>

\* manual_loop: the line read by input() calls the callback ('go'), calls
\* stop() and leaves the loop ('quit'), or is ignored; then the loop test
\* `while self._running` decides whether the thread waits for another line
ManualInput ==
    /\ kb_manual
    /\ kb_inputs < MaxInputs
    /\ kb_inputs' = kb_inputs + 1
    /\ \E line \in Lines :
          /\ kb_invocations' = IF line = "go" THEN kb_invocations + 1
                               ELSE kb_invocations
          /\ kb_running' = (kb_running /\ line # "quit")
          /\ kb_manual' = (kb_running /\ line # "quit")
    /\ UNCHANGED <<kb_listener, kb_mode, kb_esc, kb_after_esc>>
    /\ UNCHANGED <<detVars, capVars, plVars>>

\* stop(): nothing when not running; _running = False, then the listener
\* is stopped and forgotten, or stays when stopping it raises
KeyboardStop ==
    /\ kb_running
    /\ kb_running' = FALSE
    /\ \E stopOk \in BOOLEAN : kb_listener' = (kb_listener /\ ~stopOk)
    /\ UNCHANGED <<kb_manual, kb_mode, kb_inputs, kb_invocations, kb_esc,
                   kb_after_esc>>
    /\ UNCHANGED <<detVars, capVars, plVars>>

KeyboardNext == KeyboardStart \/ OnPress \/ ManualInput \/ KeyboardStop

KeyboardSpec == Init /\ [][KeyboardNext]_vars

\* ------------------------------------------------------------------------
\* VoicePipeline
\* ------------------------------------------------------------------------

\* listen_and_respond, called by c, up to `if self._is_listening: return`
ListenEnter(c) ==
    /\ pl_pc[c] = "idle"
    /\ pl_calls < MaxCalls
    /\ pl_calls' = pl_calls + 1
    /\ pl_pc' = [pl_pc EXCEPT ![c] = IF pl_listening THEN "idle"
                                     ELSE "entered"]
    /\ UNCHANGED <<pl_listening, pl_callback, pl_trigger, trig_running,
                   ext_pc, pl_activations, pl_user_calls, pl_text>>
    /\ UNCHANGED <<detVars, capVars, kbVars>>

\* self._callback = callback; self._is_listening = True
ListenInit(c) ==
    /\ pl_pc[c] = "entered"
    /\ pl_callback' = c
    /\ pl_listening' = TRUE
    /\ pl_pc' = [pl_pc EXCEPT ![c] = "create"]
    /\ UNCHANGED <<pl_trigger, trig_running, ext_pc, pl_calls,
                   pl_activations, pl_user_calls, pl_text>>
    /\ UNCHANGED <<detVars, capVars, kbVars>>

\* self.trigger = KeyboardTrigger(self._on_trigger); self.trigger.start():
\* the trigger runs, or start() raises and the handler leads to finally
ListenCreate(c) ==
    /\ pl_pc[c] = "create"
    /\ pl_trigger' = c
    /\ \E startOk \in BOOLEAN :
          /\ trig_running' = [trig_running EXCEPT ![c] = startOk]
          /\ pl_pc' = [pl_pc EXCEPT ![c] = IF startOk THEN "loop"
                                           ELSE "finally"]
    /\ UNCHANGED <<pl_listening, pl_callback, ext_pc, pl_calls,
                   pl_activations, pl_user_calls, pl_text>>
    /\ UNCHANGED <<detVars, capVars, kbVars>>

\* while self._is_listening and self.trigger.is_running(): the test fails,
\* or raises AttributeError because trigger is None
LoopEnds ==
    IF ~pl_listening \/ pl_trigger = 0 THEN TRUE
    ELSE ~trig_running[pl_trigger]

\* the loop of listen_and_respond is left, by its test or by a
\* KeyboardInterrupt during the sleep; each way leads to finally
ListenLoop(c) ==
    /\ pl_pc[c] = "loop"
    /\ \E interrupt \in BOOLEAN : IF interrupt THEN TRUE ELSE LoopEnds
    /\ pl_pc' = [pl_pc EXCEPT ![c] = "finally"]
    /\ UNCHANGED <<pl_listening, pl_callback, pl_trigger, trig_running,
                   ext_pc, pl_calls, pl_activations, pl_user_calls, pl_text>>
    /\ UNCHANGED <<detVars, capVars, kbVars>>

\* stop(): `if self.trigger is not None`: self.trigger.stop() and
\* self.trigger = None
StopRelease(pc) ==
    /\ pc = "release"
    /\ trig_running' = IF pl_trigger = 0 THEN trig_running
                       ELSE [trig_running EXCEPT ![pl_trigger] = FALSE]
    /\ pl_trigger' = 0
    /\ UNCHANGED pl_listening

\* finally: self.stop(), up to self._is_listening = False
ListenFinally(c) ==
    /\ pl_pc[c] = "finally"
    /\ pl_listening' = FALSE
    /\ pl_pc' = [pl_pc EXCEPT ![c] = "release"]
    /\ UNCHANGED <<pl_callback, pl_trigger, trig_running, ext_pc, pl_calls,
                   pl_activations, pl_user_calls, pl_text>>
    /\ UNCHANGED <<detVars, capVars, kbVars>>

\* the rest of that stop(), and the return of listen_and_respond
ListenReturn(c) ==
    /\ StopRelease(pl_pc[c])
    /\ pl_pc' = [pl_pc EXCEPT ![c] = "idle"]
    /\ UNCHANGED <<pl_callback, ext_pc, pl_calls, pl_activations,
                   pl_user_calls, pl_text>>
    /\ UNCHANGED <<detVars, capVars, kbVars>>

\* stop(), called from a thread that runs no session, up to
\* self._is_listening = False
PipelineStopBegin ==
    /\ ext_pc = "idle"
    /\ pl_calls > 0
    /\ pl_listening' = FALSE
    /\ ext_pc' = "release"
    /\ UNCHANGED <<pl_callback, pl_trigger, trig_running, pl_pc, pl_calls,
                   pl_activations, pl_user_calls, pl_text>>
    /\ UNCHANGED <<detVars, capVars, kbVars>>

\* the rest of that stop()
PipelineStopRelease ==
    /\ StopRelease(ext_pc)
    /\ ext_pc' = "idle"
    /\ UNCHANGED <<pl_callback, pl_pc, pl_calls, pl_activations,
                   pl_user_calls, pl_text>>
    /\ UNCHANGED <<detVars, capVars, kbVars>>

\* the trigger of caller c stops by itself: 'quit' in manual mode calls
\* KeyboardTrigger.stop()
TriggerQuit(c) ==
    /\ trig_running[c]
    /\ trig_running' = [trig_running EXCEPT ![c] = FALSE]
    /\ UNCHANGED <<pl_listening, pl_callback, pl_trigger, pl_pc, ext_pc,
                   pl_calls, pl_activations, pl_user_calls, pl_text>>
    /\ UNCHANGED <<detVars, capVars, kbVars>>

\* an _on_trigger that never takes the "No speech detected" return
NeverEmpty(transcribed_text) == FALSE

\* _on_trigger: `if not transcribed_text`
NoSpeech(transcribed_text) == transcribed_text = ""

\* _on_trigger, called by a running trigger: the text from
\* record_and_transcribe is answered with "I didn't catch that" when empty,
\* and passed to the callback, when there is one, otherwise
OnTrigger ==
    /\ \E c \in Sessions : trig_running[c]
    /\ pl_activations < MaxActivations
    /\ pl_activations' = pl_activations + 1
    /\ \E transcribed_text \in Transcriptions :
          /\ pl_text' = transcribed_text
          /\ pl_user_calls' = IF ~NoSpeech(transcribed_text)
                                 /\ pl_callback # 0
                              THEN pl_user_calls + 1
                              ELSE pl_user_calls
    /\ UNCHANGED <<pl_listening, pl_callback, pl_trigger, trig_running,
                   pl_pc, ext_pc, pl_calls>>
    /\ UNCHANGED <<detVars, capVars, kbVars>>

PipelineNext ==
    \/ \E c \in Sessions :
          \/ ListenEnter(c)
          \/ ListenInit(c)
          \/ ListenCreate(c)
          \/ ListenLoop(c)
          \/ ListenFinally(c)
          \/ ListenReturn(c)
          \/ TriggerQuit(c)
    \/ PipelineStopBegin
    \/ PipelineStopRelease
    \/ OnTrigger

PipelineSpec == Init /\ [][PipelineNext]_vars

\* ------------------------------------------------------------------------
\* Properties of the trigger detector
\* ------------------------------------------------------------------------

\* C1: after a TriggerEvent at time t the consumer callback is not invoked
\* again for a frame whose time is below t + cooldown_duration: any two
\* invocations are at least one cooldown apart.
C1_CooldownBetweenEvents ==
    \A i, j \in 1..Len(events) :
        i < j => events[j].time >= events[i].time + CooldownDuration

\* a second event has fired, after the cooldown of the first
C1_SecondEventAfterCooldown ==
    /\ Len(events) = 2
    /\ fired # "none"

\* C2: a frame that completes two qualifying spans whose ends are at most
\* max_clap_gap apart (equality included), all handled outside cooldown,
\* emits TriggerEvent{Claps} and leaves clap history empty.
C2_QualifyingPairFires ==
    pairDue => fired = "Claps" /\ clap_history = <<>>

\* C3: as long as no handled frame has a peak above clap_threshold, the clap
\* matcher has not fired and in_clap and clap history have their initial
\* values.
C3_QuietNeverClaps ==
    ~everLoud =>
        /\ in_clap = FALSE
        /\ clap_history = <<>>
        /\ \A i \in 1..Len(events) : events[i].method # "Claps"

\* quiet frames were handled, up to a sustained-speech event, and no clap
C3_QuietFramesHandled ==
    /\ ~everLoud
    /\ delivered > SustainedSpeechFrames
    /\ Len(events) = 1

\* C4: on a detector that has not emitted yet, a run of speech frames emits
\* TriggerEvent{SustainedSpeech} on its 20th frame and on no earlier one.
C4_SustainedOnTwentieth ==
    /\ events = <<>> => speechRun < SustainedSpeechFrames
    /\ Len(events) = 1 /\ fired = "SustainedSpeech"
          => speechRun = SustainedSpeechFrames

\* the first event is a sustained-speech event, on the 20th frame of a run
C4_FirstSustainedEvent ==
    /\ Len(events) = 1
    /\ fired = "SustainedSpeech"
    /\ speechRun = SustainedSpeechFrames
    /\ delivered = SustainedSpeechFrames

\* C5: every non-speech frame handed to the running detector leaves both
\* speech counters at 0, and TriggerEvent{SustainedSpeech} fires only on a
\* frame that ends an unbroken run of at least 20 speech frames.
C5_ShortBurstsNeverTrigger ==
    /\ delivered > 0 /\ speechRun = 0
          => speech_frames = 0 /\ consecutive_speech_frames = 0
    /\ fired = "SustainedSpeech" => speechRun = SustainedSpeechFrames

\* C11: on a detector whose voice-activity detector was initialised,
\* is_speech of every classified frame equals the detector's verdict for
\* that frame; the energy comparison decides only when there is no detector.
C11_VerdictDecidesWithDetector ==
    phrase_evaluated /\ vad => (last_is_speech <=> last_verdict = "speech")

\* C12: a frame on which the voice-activity detector call failed is
\* classified as non-speech by the trigger detector.
C12_FailedVerdictIsNonSpeech ==
    phrase_evaluated /\ last_verdict = "error" => ~last_is_speech

\* C14: after a start() that raised because the input stream could not be
\* opened or started, no processing thread was started and the detector is
\* not running.
C14_FailedStartLeavesStopped ==
    start_raised => ~running /\ ~thread /\ ~stream

\* C15: once a call of stop() has returned, and until the next start(), no
\* frame callback changes the detection state or invokes the consumer
\* callback.
C15_QuiescentAfterStop ==
    [][stop_returned => UNCHANGED detectionState]_vars

\* C16: a frame callback invokes the consumer callback at most once; when
\* the clap matcher fires, the sustained-speech matcher is not evaluated on
\* that frame (both counters keep their values) and the one invocation is
\* the Claps event; when the sustained-speech matcher fires, the one
\* invocation is the SustainedSpeech event; otherwise there is none.
C16_OneEventPerFrame ==
    [][/\ Len(events') <= Len(events) + 1
       /\ delivered' # delivered =>
            /\ fired' = "Claps" =>
                  /\ ~phrase_evaluated'
                  /\ UNCHANGED <<speech_frames, consecutive_speech_frames>>
                  /\ events' = Append(events, TriggerEvent("Claps", now'))
            /\ fired' = "SustainedSpeech" =>
                  /\ phrase_evaluated'
                  /\ events' = Append(events,
                                      TriggerEvent("SustainedSpeech", now'))
            /\ fired' = "none" => events' = events]_vars

\* the clap matcher fired on the 20th frame of a run of speech frames, on
\* which the sustained-speech matcher would have fired too
C16_BothMatchersDue ==
    /\ fired = "Claps"
    /\ speechRun = SustainedSpeechFrames
    /\ speech_frames = SustainedSpeechFrames - 1
    /\ consecutive_speech_frames = SustainedSpeechFrames - 1
    /\ Len(events) = 1

\* C18: in the state right after a frame that emitted a TriggerEvent, clap
\* history is empty, in_clap is false and both speech counters are 0.
C18_StateResetAfterEvent ==
    fired # "none" =>
        /\ clap_history = <<>>
        /\ in_clap = FALSE
        /\ speech_frames = 0
        /\ consecutive_speech_frames = 0

\* C19: every timestamp in clap history is at most max_clap_gap older than
\* the newest timestamp in it.
C19_HistoryWithinGap ==
    \A i \in 1..Len(clap_history) :
        clap_history[Len(clap_history)] - clap_history[i] <= MaxClapGap

\* a first clap, a stall of the stream, and a second clap: two loud frames
\* and the quiet frame that ends them, on which the first clap was dropped
\* from the history
C19_StaleClapDropped ==
    /\ delivered = 6
    /\ loud = 4
    /\ delayed = 1
    /\ now > CooldownDuration
    /\ events = <<>>
    /\ ~in_clap
    /\ clap_start_time = now - 2 * FrameTicks
    /\ clap_history = <<now>>

C13_CaptureRunsWithoutDetector ==
    cap_failure # "vad_unavailable"

\* ------------------------------------------------------------------------
\* Properties of the utterance capturer
\* ------------------------------------------------------------------------

\* C6: when the silence timeout is evaluated for a burst whose first and
\* last speech blocks are less than min_speech_duration apart, the buffer is
\* discarded and the capturer is back in Idle, still listening; such a burst
\* never comes back as a non-empty Utterance.
C6_ShortBurstDiscarded ==
    /\ softEval /\ silence_start - speech_start < MinSpeechDuration
          => cap_pc = "capturing" /\ ~recording /\ frames = <<>>
    /\ (/\ cap_pc = "returned"
        /\ stopKind = "soft"
        /\ silence_start - speech_start < MinSpeechDuration)
          => audio = <<>>

\* C7: a returned buffer is empty or stems from a recording that lasted at
\* least min_speech_duration from speech_start_time to the moment it
\* stopped, by soft stop, hard stop or the end of the wait.
C7_ReturnedMeetsMinimum ==
    cap_pc = "returned" =>
        \/ audio = <<>>
        \/ stopTime - speech_start >= MinSpeechDuration

\* C8: no block whose timestamp exceeds stream_start_time + max_duration is
\* in the capture buffer, and the first such block stops the capture
\* whether or not a recording is under way.
C8_HardCap ==
    /\ \A i \in 1..Len(frames) : frames[i].t <= start_time + max_duration
    /\ cap_pc = "capturing" => current_time <= start_time + max_duration
    /\ stopKind = "hard" =>
          /\ stopTime > start_time + max_duration
          /\ \A i \in 1..Len(frames) : frames[i].n < captured

\* uninterrupted speech ran into the cap
C8_SpeechHitsCap ==
    /\ regular
    /\ cap_pc = "stopped"
    /\ stopKind = "hard"
    /\ recording
    /\ speechCount = captured
    /\ frames # <<>>

\* C9 as stated: a 0.6 s burst (20 blocks of 30 ms) followed by silence up
\* to the soft stop comes back as one Utterance of 0.6 s to 2.0 s.
C9_UtteranceWithinTwoSeconds ==
    (/\ regular
     /\ speechCount * FrameTicks = 60
     /\ cap_pc = "returned"
     /\ stopKind = "soft")
      => /\ audio # <<>>
         /\ 60 <= Len(audio) * FrameTicks
         /\ Len(audio) * FrameTicks <= 200

\* C9 as amended: the 0.6 s burst followed by silence is ended by the soft
\* stop, on the first block more than silence_timeout after the last speech
\* block, and comes back as one Utterance that holds every block from the
\* onset to that block: the burst plus silence_timeout, rounded up to the
\* next block (2.61 s).
C9_UtteranceKeepsTrailingSilence ==
    /\ (/\ regular
        /\ speechCount * FrameTicks = 60
        /\ cap_pc = "returned"
        /\ stopKind = "soft")
          => /\ Len(audio) = captured
             /\ Len(audio) * FrameTicks > 60 + SilenceTimeout
             /\ Len(audio) * FrameTicks <= 60 + SilenceTimeout + FrameTicks
    /\ (/\ regular
        /\ speechCount * FrameTicks = 60
        /\ max_duration = MaxDuration
        /\ captured * FrameTicks > 60 + SilenceTimeout)
          => stopKind = "soft"

\* the burst of 0.6 s and its trailing silence came back, transcribed
C9_BurstReturned ==
    /\ regular
    /\ speechCount * FrameTicks = 60
    /\ cap_pc = "returned"
    /\ stopKind = "soft"
    /\ text = "words"

\* C10: a capture in which no block was classified as speech returns a
\* zero-length array, and record_and_transcribe returns "" without invoking
\* the transcription model.
C10_NoSpeechNoTranscription ==
    cap_pc = "returned" /\ speechCount = 0 =>
        /\ audio = <<>>
        /\ text = ""
        /\ transcribeCalls = 0

\* a capture of silent blocks ran up to the cap and returned
C10_SilentCaptureReturned ==
    /\ cap_pc = "returned"
    /\ speechCount = 0
    /\ captured > 1
    /\ stopKind = "hard"

\* C17 as stated: record_and_transcribe never raises, and whenever model
\* loading, VAD initialisation, recording or transcription failed it
\* returned the empty string.
C17_FailureReturnsEmpty ==
    cap_pc = "returned" =>
        /\ ~propagated
        /\ cap_failure # "none" => text = ""

\* C17 as amended: record_and_transcribe never raises; it returns "" when
\* model loading, VAD initialisation or transcription failed, and when the
\* recording failed before any block was kept; after a recording failure
\* with blocks in the buffer these blocks are still transcribed.
C17_FailureCaught ==
    cap_pc = "returned" =>
        /\ ~propagated
        /\ cap_failure \in {"model", "vad_unavailable", "vad",
                            "transcription"} => text = ""
        /\ cap_failure = "recording" /\ audio = <<>> => text = ""
        /\ cap_failure = "recording" /\ audio # <<>> => transcribeCalls = 1

\* the stream failed after speech was captured, and the speech came back
\* transcribed
C17_LateRecordingFailure ==
    /\ cap_pc = "returned"
    /\ cap_failure = "recording"
    /\ audio # <<>>
    /\ text = "words"

\* C21: when the silence timeout is evaluated, the capture is accepted
\* (soft stop) exactly when the last speech block is at least
\* min_speech_duration after speech_start_time; otherwise the buffer is
\* discarded and the capturer is back in Idle.
C21_SoftStopCountsSpeechOnly ==
    softEval =>
        /\ stopKind = "soft"
              <=> silence_start - speech_start >= MinSpeechDuration
        /\ stopKind # "soft" => ~recording /\ frames = <<>>

\* C22: on a block that does not stop the capture, a speech block in Idle
\* enters Recording with speech_start_time = silence_start_time = now; a
\* speech block sets silence_start_time = now and a non-speech block leaves
\* it alone, so that it is the time of the most recent speech block;
\* speech_start_time <= silence_start_time while Recording; and every
\* block that arrives while Recording goes on, speech or not, is appended.
C22_CapturerTransitions ==
    [][(captured' = captured + 1 /\ cap_pc' = "capturing") =>
         /\ speechCount' > speechCount =>
               /\ recording'
               /\ silence_start' = current_time'
               /\ speech_start' = IF recording THEN speech_start
                                  ELSE current_time'
               /\ frames' = Append(frames, Block(captured', current_time'))
         /\ (speechCount' = speechCount /\ recording /\ recording') =>
               /\ UNCHANGED <<silence_start, speech_start>>
               /\ frames' = Append(frames, Block(captured', current_time'))
         /\ (speechCount' = speechCount /\ ~recording) =>
               ~recording' /\ frames' = frames
         /\ recording' => speech_start' <= silence_start']_vars

\* a recording of several speech blocks, with a pause kept in the buffer
C22_PauseKept ==
    /\ cap_pc = "capturing"
    /\ recording
    /\ speechCount >= 2
    /\ speech_start < silence_start
    /\ silence_start < current_time
    /\ frames[Len(frames)].t = current_time

\* C23: a block on which the capture is ended by soft stop, or on which the
\* buffer is discarded, arrives more than silence_timeout after the last
\* speech block.
C23_ShortPausesPreserved ==
    [][(/\ cap_pc = "capturing"
        /\ captured' = captured + 1
        /\ stopKind' = "soft" \/ Len(frames') < Len(frames) \/ softEval')
          => current_time' - silence_start' > SilenceTimeout]_vars

\* a burst followed by silent blocks up to the first block past the timeout,
\* which ends the capture
C23_StoppedPastTimeout ==
    /\ regular
    /\ cap_pc = "stopped"
    /\ stopKind = "soft"
    /\ speechCount >= 2
    /\ captured - speechCount > 2
    /\ stopTime - silence_start <= SilenceTimeout + FrameTicks

\* C24: a non-empty returned buffer holds the delivered blocks from the
\* onset speech block of the recording through the last block the callback
\* appended (the block that ended the capture by soft stop, or the block
\* before the one that hit the cap), in arrival order, each once, and no
\* block from before the onset.
C24_ReturnedRunIsContiguous ==
    (cap_pc = "returned" /\ audio # <<>>) =>
        /\ \A i \in 1..Len(audio) : audio[i].n = audio[1].n + i - 1
        /\ audio[1].t = speech_start
        /\ audio[Len(audio)].n = IF stopKind = "hard" THEN captured - 1
                                 ELSE captured

\* silence, then speech with a pause in it, came back from the onset on
C24_RunWithPauseReturned ==
    /\ cap_pc = "returned"
    /\ Len(audio) >= 3
    /\ audio[1].n > 1
    /\ speechCount < Len(audio)
    /\ silence_start = audio[Len(audio)].t

\* C28: when the consumer callback raised RuntimeError or TypeError on the
\* last event, no exception left the frame callback, the detector is still
\* running with its stream, the cooldown set for that event is in effect,
\* and the frames after the event stop at the cooldown gate exactly while
\* that cooldown lasts.
C28_ConsumerErrorSwallowed ==
    consumer \in {"RuntimeError", "TypeError"} =>
        /\ ~escaped
        /\ running
        /\ stream
        /\ events # <<>>
        /\ cooldown_end = events[Len(events)].time + CooldownDuration
        /\ now > events[Len(events)].time => (gated <=> now < cooldown_end)
        /\ now = events[Len(events)].time => fired = events[Len(events)].method

\* a frame is processed past the cooldown gate after an event whose
\* consumer callback raised TypeError
C28_FrameAfterSwallowedError ==
    /\ consumer = "TypeError"
    /\ events # <<>>
    /\ now > events[Len(events)].time
    /\ ~gated

\* C25: clap history, in_clap, clap_start_time, both speech counters and
\* cooldown_end change only in the step in which a frame callback runs its
\* body; no step of start(), stop(), is_running() or the _run thread
\* changes them, however the threads interleave.
C25_SingleWriter ==
    [][<<clap_history, in_clap, clap_start_time, speech_frames,
         consecutive_speech_frames, cooldown_end>>' #
       <<clap_history, in_clap, clap_start_time, speech_frames,
         consecutive_speech_frames, cooldown_end>>
          => cb_pc = "checked" /\ cb_pc' = "idle"]_vars

\* the frame callback has written the clap state and a speech counter, and
\* afterwards stop() returned and the _run thread ended
C25_WrittenThenStopped ==
    /\ in_clap
    /\ consecutive_speech_frames > 0
    /\ stop_returned
    /\ ~running
    /\ ~run_alive
    /\ delivered > 0

\* C29: a frame callback that is called while the detector is not running
\* returns in that step and leaves the detection buffer, the clap history,
\* in_clap, both speech counters and cooldown_end as they were; it does
\* not call the consumer callback.
C29_StoppedDetectorIgnoresFrames ==
    [][(/\ stream
        /\ cb_pc = "idle"
        /\ ~running
        /\ (dropped' = dropped + 1 \/ cb_pc' = "checked"))
          => /\ cb_pc' = "idle"
             /\ UNCHANGED <<detection_buffer, clap_history, in_clap,
                            speech_frames, consecutive_speech_frames,
                            cooldown_end, events, consumer>>]_vars

\* a frame reached the callback of a stopped detector whose buffer and clap
\* state an earlier frame had written
C29_FrameDroppedWhileStopped ==
    /\ dropped > 0
    /\ ~running
    /\ detection_buffer # <<>>
    /\ in_clap

\* C26 (as stated): a call that got as far as the capture uses the duration
\* argument as its hard cap whenever the caller passed a number, and the
\* configured max_duration only when the argument is None.
C26_DurationArgumentIsTheCap ==
    (cap_pc # "idle" /\ cap_failure \notin {"model", "vad_unavailable", "vad"})
        => max_duration = IF duration.given THEN duration.value
                          ELSE MaxDuration

C27_EscStopsTrigger ==
    (kb_mode = "listener" /\ kb_esc) => ~kb_running /\ ~kb_after_esc

C32_CountersCoincide ==
    /\ consecutive_speech_frames = speech_frames
    /\ speech_frames < (IF MinSpeechFrames > SustainedSpeechFrames
                        THEN MinSpeechFrames ELSE SustainedSpeechFrames)

\* the counters are running, equal, after an event and some frames that
\* did not count
C32_CountingAfterReset ==
    /\ events # <<>>
    /\ speech_frames >= 2
    /\ speechRun >= 2
    /\ delivered > speech_frames + 2

\* C33: until the capture stops, recording holds exactly when the frame
\* buffer is non-empty, and a non-empty buffer begins with a block that was
\* classified as speech: the onset block, kept at speech_start.
C33_RecordingIffBuffered ==
    cap_pc \in {"idle", "capturing"} =>
        /\ recording <=> frames # <<>>
        /\ frames # <<>> => head_speech /\ frames[1].t = speech_start

\* the capture goes on with silent blocks before the onset and a pause kept
\* after it
C33_BufferBehindSilentLead ==
    /\ cap_pc = "capturing"
    /\ recording
    /\ frames[1].n > 1
    /\ Len(frames) > speechCount

\* C34: on a stream of 30 ms frames, when a quiet frame ends a run of k loud
\* frames that reached the clap matcher, the span is registered as a clap
\* (its end time enters the clap history, or completes a pair) exactly when
\* 2 <= k <= 10; a run of one loud frame is never registered.
C34_SpanOfTwoToTenFrames ==
    [][(spanStart # -1 /\ spanStart' = -1 /\ ~gated')
          => LET k == (now' - spanStart) \div FrameTicks
             IN  /\ k >= 1
                 /\ now' - spanStart = k * FrameTicks
                 /\ (clap_history' # clap_history \/ fired' = "Claps")
                       <=> (2 <= k /\ k <= 10)]_vars

\* a run of ten loud frames has been registered as a clap
C34_TenFrameSpanRegistered ==
    /\ ~in_clap
    /\ clap_history # <<>>
    /\ clap_history[Len(clap_history)] = now
    /\ now - clap_start_time = 10 * FrameTicks
    /\ loud >= 10

\* C35: no step of start() or stop() changes cooldown_end, the clap
\* history, in_clap, clap_start_time or the speech counters, and across
\* stops and restarts every event comes at least one cooldown after the
\* event before it.
C35_RestartKeepsDetectionState ==
    [][/\ running' # running
          => UNCHANGED <<cooldown_end, clap_history, in_clap,
                         clap_start_time, speech_frames,
                         consecutive_speech_frames>>
       /\ (events' # events /\ events # <<>>)
          => now' >= events[Len(events)].time + CooldownDuration]_vars

\* the detector was stopped and started again after an event, and the
\* cooldown of that event has held back a frame of the restarted detector
C35_GatedAfterRestart ==
    /\ events # <<>>
    /\ events[Len(events)].time <= started_at
    /\ running
    /\ now > started_at
    /\ gated
    /\ now < cooldown_end

\* C36 (as stated): the step in which listen_and_respond returns from a
\* session leaves is_listening() false, no trigger held by the pipeline and
\* the trigger of that session stopped; a call that finds a session
\* listening returns in its first step and changes neither the flag, the
\* callback nor the trigger.
C36_SessionEndsStopped ==
    [][\A c \in Sessions :
          /\ (pl_pc[c] = "release" /\ pl_pc'[c] = "idle")
                => ~pl_listening' /\ pl_trigger' = 0 /\ ~trig_running'[c]
          /\ (pl_pc[c] = "idle" /\ pl_listening /\ pl_calls' = pl_calls + 1)
                => /\ pl_pc'[c] = "idle"
                   /\ UNCHANGED <<pl_listening, pl_callback, pl_trigger,
                                  trig_running>>]_vars

\* C37: an activation whose transcription is empty does not call the
\* user's callback and leaves the listening flag, the callback and the
\* trigger as they were.
C37_EmptyTranscriptionSkipsCallback ==
    [][(pl_activations' = pl_activations + 1 /\ pl_text' = "")
          => /\ pl_user_calls' = pl_user_calls
             /\ UNCHANGED <<pl_listening, pl_callback, pl_trigger,
                            trig_running>>]_vars

\* after an activation that reached the user's callback, an activation with
\* an empty transcription has left the session listening
C37_ListeningAfterEmptyTranscription ==
    /\ pl_activations = 2
    /\ pl_user_calls = 1
    /\ pl_text = ""
    /\ pl_listening
    /\ pl_trigger # 0
    /\ trig_running[pl_trigger]

====
